---- MODULE Spec2Model ----
(***************************************************************************)
(* Model of receptivefield/tensorflow.py: the two TensorFlow estimators    *)
(* (TFReceptiveField, which resolves tensors by name, and                  *)
(* TFFeatureMapsReceptiveField, whose model callback returns the feature   *)
(* maps), their session lifecycle, the gradient probe they build and the   *)
(* impulse masks fed to it.                                                *)
(*                                                                         *)
(* Arrays are numpy arrays: a shape (n, h, w, c) and one integer per       *)
(* index.  Gradient values are kept in units of 1/(C_out*fm_h*fm_w*...) so *)
(* that they stay integers: the two reduce_mean calls of                   *)
(* _define_fm_gradient only scale the gradient by a positive constant.     *)
(***************************************************************************)
EXTENDS Integers, Sequences, FiniteSets, TLC

\* ------------------------------------------------------------------ bounds

\* Prepare/compute calls begun in one behaviour.
MaxCalls == 2

\* ------------------------------------------------------------ shapes, arrays

GridShape(n, h, w, c) == [n |-> n, h |-> h, w |-> w, c |-> c]

\* GridShape.replace(n=1)
ReplaceN1(shape) == [shape EXCEPT !.n = 1]

Indices(shape) ==
    (0 .. shape.n - 1) \X (0 .. shape.h - 1) \X (0 .. shape.w - 1) \X (0 .. shape.c - 1)

\* np.zeros(shape=shape)
Zeros(shape) == [shape |-> shape, data |-> [i \in Indices(shape) |-> 0]]

None == <<>>
Some(v) == <<v>>

\* numpy accepts an integer index i into an axis of length dim when
\* -dim <= i < dim (IndexError otherwise); a negative index counts from the end.
InAxis(i, dim) == -dim <= i /\ i < dim
NumpyIndex(i, dim) == IF i < 0 THEN i + dim ELSE i

\* output_feature_map[:, y, x, 0] = intensity   (for indices numpy accepts)
AssignImpulse(arr, y, x, intensity) ==
    LET yy == NumpyIndex(y, arr.shape.h)
        xx == NumpyIndex(x, arr.shape.w)
    IN  [arr EXCEPT !.data =
            [i \in Indices(arr.shape) |->
                IF i[2] = yy /\ i[3] = xx /\ i[4] = 0
                THEN intensity ELSE arr.data[i]]]

\* ------------------------------------------------- the model callback's graph
\* The user's model_func is external; it is represented by a small family of
\* networks.  A network gives its input tensor a batch dimension, raises
\* for images lower than minH, and has one convolution-like layer (square
\* kernel k, stride s, TensorFlow "SAME" padding, ch channels) per feature map,
\* each reading the input image.

Layer(name, k, s, ch) == [name |-> name, k |-> k, s |-> s, ch |-> ch]

Models ==
    { [batch |-> 1, minH |-> 1,
       layers |-> << Layer("fm1", 1, 1, 2), Layer("fm2", 3, 1, 1) >>],
      [batch |-> 1, minH |-> 4,
       layers |-> << Layer("fm1", 1, 2, 1), Layer("fm2", 1, 1, 2) >>],
      [batch |-> 2, minH |-> 1,
       layers |-> << Layer("fm1", 1, 1, 1) >>] }

InputName == "input"

\* Spatial output size of a SAME-padded layer of stride s.
OutDim(size, s) == (size + s - 1) \div s

\* Padding TensorFlow puts before an axis under "SAME".
PadBefore(size, k, s) ==
    LET total == (OutDim(size, s) - 1) * s + k - size
    IN  IF total > 0 THEN total \div 2 ELSE 0

Tensor(graph, name, layer, shape) ==
    [graph |-> graph, name |-> name, layer |-> layer, shape |-> shape]

\* The feature-map tensors the callback builds on an input tensor.
FeatureMaps(net, graph, input) ==
    [ j \in 1 .. Len(net.layers) |->
        Tensor(graph, net.layers[j].name, j,
               GridShape(net.batch,
                         OutDim(input.shape.h, net.layers[j].s),
                         OutDim(input.shape.w, net.layers[j].s),
                         net.layers[j].ch)) ]

ModelRaises(net, image_shape) == image_shape.h < net.minH

\* def _get_tensor_shape(tensor): list(map(int, tensor.get_shape()))
get_tensor_shape(tensor) ==
    << tensor.shape.n, tensor.shape.h, tensor.shape.w, tensor.shape.c >>

\* def _define_fm_gradient(input_tensor, output_tensor, receptive_field_mask)
\* the gradient node of mean(mean(output, -1) * mask) w.r.t. the input tensor.
define_fm_gradient(input_tensor, output_tensor, receptive_field_mask) ==
    [wrt |-> input_tensor, out |-> output_tensor, mask |-> receptive_field_mask]

\* tf.placeholder(tf.float32, shape=shape, name=...): a tensor of the graph
\* under construction; TensorFlow makes the k-th "grid" name unique.
Placeholder(graph, k, shape) ==
    [graph |-> graph, ph |-> k, shape |-> GridShape(shape[1], shape[2], shape[3], shape[4])]

\* graph.get_operation_by_name(name).outputs[0] on the by-name graph: the
\* operations the callback created are the input and one per layer.
OpNames(net) == {InputName} \cup { net.layers[j].name : j \in 1 .. Len(net.layers) }

InputTensorByName(net, graph, image_shape) ==
    Tensor(graph, InputName, 0,
           GridShape(net.batch, image_shape.h, image_shape.w, image_shape.c))

get_operation_by_name(net, graph, image_shape, name) ==
    IF name = InputName
    THEN InputTensorByName(net, graph, image_shape)
    ELSE LET fms == FeatureMaps(net, graph, InputTensorByName(net, graph, image_shape))
         IN  fms[CHOOSE j \in 1 .. Len(net.layers) : net.layers[j].name = name]

\* Mutant: the batch dimension of the output is kept.
OutputShape_KeepBatch(output_tensor) ==
    LET output_shape == get_tensor_shape(output_tensor)
    IN  << output_shape[1], output_shape[2], output_shape[3], 1 >>

\* output_shape = (1, output_shape[1], output_shape[2], 1)
OutputShape(output_tensor) ==
    LET output_shape == get_tensor_shape(output_tensor)
    IN  << 1, output_shape[2], output_shape[3], 1 >>

\* The loop over the output tensors: k-th placeholder, k-th gradient node,
\* k-th shape, appended in the order of the outputs.
MaskFor(graph, outs, k) == Placeholder(graph, k, OutputShape(outs[k]))

\* Mutant: every gradient is taken of the first output tensor.
GradFor_FirstOutput(graph, input_tensor, outs, k) ==
    define_fm_gradient(input_tensor, outs[1], MaskFor(graph, outs, k))

GradFor(graph, input_tensor, outs, k) ==
    define_fm_gradient(input_tensor, outs[k], MaskFor(graph, outs, k))

Built(graph, input_tensor, input_shape, outs) ==
    [raised |-> None,
     graph |-> graph,
     input_tensor |-> input_tensor,
     input_shape |-> input_shape,
     grads |-> [k \in 1 .. Len(outs) |-> GradFor(graph, input_tensor, outs, k)],
     receptive_field_masks |-> [k \in 1 .. Len(outs) |-> MaskFor(graph, outs, k)],
     output_shapes |-> [k \in 1 .. Len(outs) |-> OutputShape(outs[k])]]

Raised(error) == [raised |-> Some(error)]

\* Mutant: an output name that is not in the graph is skipped.
BuildByName_SkipMissing(net, graph, image_shape, input_tensor, output_tensors) ==
    IF ModelRaises(net, image_shape) THEN Raised("ModelError")
    ELSE IF input_tensor \notin OpNames(net) THEN Raised("KeyError")
    ELSE LET Known(name) == name \in OpNames(net)
             names == SelectSeq(output_tensors, Known)
             input == get_operation_by_name(net, graph, image_shape, input_tensor)
             outs == [k \in 1 .. Len(names) |->
                        get_operation_by_name(net, graph, image_shape, names[k])]
         IN  Built(graph, input, get_tensor_shape(input), outs)

\* TFReceptiveField._prepare_gradient_func, the graph block: call the
\* callback, resolve the input by name, then each output by name.
BuildByName(net, graph, image_shape, input_tensor, output_tensors) ==
    IF ModelRaises(net, image_shape) THEN Raised("ModelError")
    ELSE IF input_tensor \notin OpNames(net) THEN Raised("KeyError")
    ELSE IF \E k \in 1 .. Len(output_tensors) : output_tensors[k] \notin OpNames(net)
    THEN Raised("KeyError")
    ELSE LET input == get_operation_by_name(net, graph, image_shape, input_tensor)
             outs == [k \in 1 .. Len(output_tensors) |->
                        get_operation_by_name(net, graph, image_shape, output_tensors[k])]
         IN  Built(graph, input, get_tensor_shape(input), outs)

\* TFFeatureMapsReceptiveField._prepare_gradient_func, the graph block: the
\* input placeholder has shape [1, *input_shape]; the callback returns the
\* feature maps.
BuildByFeatureMaps(net, graph, image_shape) ==
    LET input == Tensor(graph, "input_image", 0,
                        GridShape(1, image_shape.h, image_shape.w, image_shape.c))
    IN  IF ModelRaises(net, image_shape) THEN Raised("ModelError")
        ELSE Built(graph, input, get_tensor_shape(input),
                   FeatureMaps(net, graph, input))

\* The closure gradient_fn and the shapes, as returned by prepare.
ToGridShape(t) == GridShape(t[1], t[2], t[3], t[4])

GradientFn(built) ==
    [graph |-> built.graph,
     input_tensor |-> built.input_tensor,
     receptive_field_masks |-> built.receptive_field_masks,
     grads |-> built.grads]

Returned(built) ==
    [gradient_fn |-> GradientFn(built),
     input_shape |-> ToGridShape(built.input_shape),
     output_shapes |-> [k \in 1 .. Len(built.output_shapes) |->
                           ToGridShape(built.output_shapes[k])]]

\* ------------------------------------------------------- session.run(grads)

\* The output coordinates (of an axis of outsize cells) that read image
\* coordinate r.
ReadBy(r, size, outsize, k, s) ==
    LET p == PadBefore(size, k, s)
    IN  { y \in 0 .. outsize - 1 : y * s - p <= r /\ r <= y * s - p + k - 1 }

RECURSIVE SumCells(_, _)
SumCells(mask, cells) ==
    IF cells = {} THEN 0
    ELSE LET e == CHOOSE e \in cells : TRUE
         IN  mask.data[<< 0, e[1], e[2], 0 >>] + SumCells(mask, cells \ {e})

\* The value of one gradient node: d mean(mean(out, -1) * mask) / d input, for
\* a layer whose kernel entries all equal the weight wt (a positive scale
\* factor is dropped).  The fed image does not enter: the layers are linear.
GradValue(net, node, mask, wt) ==
    LET in == node.wrt.shape
        l  == net.layers[node.out.layer]
    IN  [shape |-> in,
         data |-> [i \in Indices(in) |->
            wt * SumCells(mask, ReadBy(i[2], in.h, mask.shape.h, l.k, l.s)
                                  \X ReadBy(i[3], in.w, mask.shape.w, l.k, l.s))]]

\* fetch_dict = {mask_t: mask_np for mask_t, mask_np in zip(masks, fm_masks)}
\* fetch_dict[input_tensor] = input_image
ZipLen(a, b) == IF Len(a) < Len(b) THEN Len(a) ELSE Len(b)

\* Mutant: the masks are paired with the placeholders in reverse order.
FetchDict_Reversed(fn, fm_masks, input_image) ==
    [k \in 1 .. ZipLen(fn.receptive_field_masks, fm_masks) |->
        [key |-> fn.receptive_field_masks[k],
         val |-> fm_masks[ZipLen(fn.receptive_field_masks, fm_masks) + 1 - k]]]
    \o << [key |-> fn.input_tensor, val |-> input_image] >>

FetchDict(fn, fm_masks, input_image) ==
    [k \in 1 .. ZipLen(fn.receptive_field_masks, fm_masks) |->
        [key |-> fn.receptive_field_masks[k], val |-> fm_masks[k]]]
    \o << [key |-> fn.input_tensor, val |-> input_image] >>

FedValue(fetch_dict, key) ==
    fetch_dict[CHOOSE k \in 1 .. Len(fetch_dict) : fetch_dict[k].key = key].val

IsFed(fetch_dict, key) == \E k \in 1 .. Len(fetch_dict) : fetch_dict[k].key = key

\* session.run(grads, feed_dict) on session sess (its graph has the session's
\* number): TensorFlow refuses a closed session, then a feed key of another
\* graph, then a fed value of the wrong shape, then an unfed placeholder.
SessionRun(net, sess, isClosed, wt, grads, fetch_dict) ==
    IF isClosed THEN Raised("RuntimeError: closed session")
    ELSE IF \E k \in 1 .. Len(fetch_dict) : fetch_dict[k].key.graph # sess
    THEN Raised("TypeError: not an element of this graph")
    ELSE IF \E k \in 1 .. Len(fetch_dict) : fetch_dict[k].val.shape # fetch_dict[k].key.shape
    THEN Raised("ValueError: cannot feed value of shape")
    ELSE IF \E k \in 1 .. Len(grads) : ~IsFed(fetch_dict, grads[k].mask)
    THEN Raised("InvalidArgumentError: placeholder not fed")
    ELSE [raised |-> None,
          value |-> [k \in 1 .. Len(grads) |->
                        GradValue(net, grads[k], FedValue(fetch_dict, grads[k].mask), wt)]]

\* Mutant: the session is the one created with the closure.
SessionOf_Captured(fn, current_session) == fn.graph

\* The session gradient_fn runs on: self._session, read when it is called.
SessionOf(fn, current_session) == current_session[1]

\* ------------------------------------------------------------------- state

VARIABLES
    variant,            \* "TFReceptiveField" | "TFFeatureMapsReceptiveField"
    net,                \* self._model_func, one of Models
    pc,                 \* where the running prepare/compute call stands
    call,               \* the running (or last) call's arguments
    ncalls,             \* prepare/compute calls begun: numbers graphs and sessions
    _session,           \* self._session: None or Some(session)
    closed,             \* sessions whose close() has run
    weights,            \* live session -> kernel weight set by the initializer
    pending,            \* locals of prepare between the graph block and tf.Session
    _gradient_function, \* fields the base class sets from prepare's result
    _input_shape,
    _output_shapes,
    kept,               \* a gradient_fn a caller of prepare still holds
    ret,                \* what the last finished call returned or raised
    run,                \* the backend invocations of the last probe call
    lastCompute,        \* history: the last finished compute call
    origin              \* history: the calls that built _gradient_function and kept

vars == << variant, net, pc, call, ncalls, _session, closed, weights, pending,
           _gradient_function, _input_shape, _output_shapes, kept, ret, run, lastCompute, origin >>

Variants == {"TFReceptiveField", "TFFeatureMapsReceptiveField"}

\* Values the variable initializers may give the kernels (never zero).
Weights == {1, 2}

ImageShape(h, w, c) == [h |-> h, w |-> w, c |-> c]

ImageShapes == { ImageShape(3, 3, 2), ImageShape(5, 7, 1) }

\* The tensor names a caller of the by-name variant passes: the input name,
\* then the output names.
Selectors ==
    { << InputName, o >> :
        o \in { << "fm1" >>, << "fm2", "fm1" >>, << "fm1", "missing" >> } }
      \cup { << "missing", << "fm1" >> >> }

Intensities == {1, 3}

\* Sessions opened and not closed (weights holds the variables of the
\* sessions whose resources have not been released).
Live == DOMAIN weights \ closed

NoRun == << >>

Init ==
    /\ variant \in Variants
    /\ net \in Models
    /\ pc = "idle"
    /\ call = None
    /\ ncalls = 0
    /\ _session = None
    /\ closed = {}
    /\ weights = << >>
    /\ pending = None
    /\ _gradient_function = None
    /\ _input_shape = None
    /\ _output_shapes = None
    /\ kept = None
    /\ ret = None
    /\ run = NoRun
    /\ lastCompute = None
    /\ origin = [built |-> None, kept |-> None]

\* ------------------------------------------------- _prepare_gradient_func

\* Mutant: the previous session is not closed.
ClosePrevious_NoClose(session, closedSet) == closedSet

\* if self._session is not None: tf.reset_default_graph(); self._session.close()
ClosePrevious(session, closedSet) ==
    IF session # None THEN closedSet \cup {session[1]} ELSE closedSet

\* A call of _prepare_gradient_func (op "prepare") or of compute (op
\* "compute", whose first step is that same call) enters the method and
\* releases the previous session.
Enter(op, image_shape, input_tensor, output_tensors) ==
    /\ pc = "idle"
    /\ ret = None
    /\ ncalls < MaxCalls
    /\ call' = Some([op |-> op, input_shape |-> image_shape,
                     input_tensor |-> input_tensor,
                     output_tensors |-> output_tensors])
    /\ ncalls' = ncalls + 1
    /\ closed' = ClosePrevious(_session, closed)
    /\ weights' = [s \in DOMAIN weights \ closed' |-> weights[s]]
    /\ pc' = "build"
    /\ UNCHANGED << variant, net, _session, pending, _gradient_function,
                    _input_shape, _output_shapes, kept, ret, run, lastCompute, origin >>

EnterByName ==
    /\ variant = "TFReceptiveField"
    /\ \E op \in {"prepare", "compute"}, sh \in ImageShapes, sel \in Selectors :
            Enter(op, sh, sel[1], sel[2])

EnterByFeatureMaps ==
    /\ variant = "TFFeatureMapsReceptiveField"
    /\ \E op \in {"prepare", "compute"}, sh \in ImageShapes :
            Enter(op, sh, InputName, << >>)

\* The graph block of the running call.
BuildResult ==
    IF variant = "TFReceptiveField"
    THEN BuildByName(net, ncalls, call[1].input_shape,
                     call[1].input_tensor, call[1].output_tensors)
    ELSE BuildByFeatureMaps(net, ncalls, call[1].input_shape)

\* History for comparing a compute call with the previous one: the finished
\* call carries the previous call's outcome when the arguments are the same.
Outcome(finished) == [raised |-> finished.raised, value |-> finished.value]

Finished(raised, value) ==
    [op |-> call[1].op, args |-> call[1], raised |-> raised, value |-> value,
     same |-> IF call[1].op = "compute" /\ lastCompute # None
                 /\ lastCompute[1].args = call[1]
              THEN Some(Outcome(lastCompute[1])) ELSE None]

Remember(finished) ==
    IF finished.op # "compute" THEN lastCompute ELSE Some(finished)

\* with tf.Graph().as_default(): ... the callback, the lookups, the loop.
\* An exception leaves the method here.
BuildGraph ==
    /\ pc = "build"
    /\ LET b == BuildResult
       IN  IF b.raised # None
           THEN /\ pc' = "idle"
                /\ ret' = Some(Finished(b.raised, None))
                /\ lastCompute' = Remember(Finished(b.raised, None))
                /\ pending' = None
           ELSE /\ pc' = "session"
                /\ pending' = Some(b)
                /\ UNCHANGED << ret, lastCompute >>
    /\ UNCHANGED << variant, net, call, ncalls, _session, closed, weights,
                    _gradient_function, _input_shape, _output_shapes, kept, run,
                    origin >>

\* Mutant: the session reference is only set the first time.
NewSessionRef_KeepOld(old, sess) == IF old = None THEN Some(sess) ELSE old

\* self._session = tf.Session(graph=graph)
NewSessionRef(old, sess) == Some(sess)

\* self._session = tf.Session(graph=graph); run the variable initializer;
\* define gradient_fn; return.  A direct caller keeps the first gradient_fn it
\* was returned; under compute the base class stores the three results and
\* goes on to the estimation.
OpenSession ==
    /\ pc = "session"
    /\ \E wt \in Weights : weights' = (ncalls :> wt) @@ weights
    /\ _session' = NewSessionRef(_session, ncalls)
    /\ pending' = None
    /\ LET r == Returned(pending[1])
       IN  IF call[1].op = "prepare"
           THEN /\ pc' = "idle"
                /\ ret' = Some(Finished(None, Some(r)))
                /\ kept' = IF kept = None THEN Some(r.gradient_fn) ELSE kept
                /\ origin' = IF kept = None THEN [origin EXCEPT !.kept = call]
                             ELSE origin
                /\ UNCHANGED << _gradient_function, _input_shape, _output_shapes >>
           ELSE /\ pc' = "estimate"
                /\ _gradient_function' = Some(r.gradient_fn)
                /\ _input_shape' = Some(r.input_shape)
                /\ _output_shapes' = Some(r.output_shapes)
                /\ origin' = [origin EXCEPT !.built = call]
                /\ UNCHANGED << ret, kept >>
    /\ UNCHANGED << variant, net, call, ncalls, closed, run, lastCompute >>

\* ------------------------------------------------------------ gradient_fn

\* gradient_fn(fm_masks, input_image), called in the current state: one
\* backend invocation, logged with the session it ran on.
gradient_fn(fn, fm_masks, input_image) ==
    LET sess == SessionOf(fn, _session)
        out  == SessionRun(net, sess, sess \in closed,
                           IF sess \in DOMAIN weights THEN weights[sess] ELSE 0, fn.grads,
                           FetchDict(fn, fm_masks, input_image))
    IN  [fn |-> fn, on |-> sess, fm_masks |-> fm_masks,
         input_image |-> input_image, out |-> out]

\* -------------------------------------------- _get_gradient_from_grid_points

\* rf_extractor.num_feature_maps (a property of the base class)
num_feature_maps == Len(_output_shapes[1])

\* Mutant: the impulse is indexed [:, x, y, 0].
OutputFeatureMap_Swapped(output_shape, point, intensity) ==
    AssignImpulse(Zeros(ReplaceN1(output_shape)), point.x, point.y, intensity)

\* The mask of feature map fm: zeros of the output shape with n = 1, then the
\* impulse at row points[fm].y, column points[fm].x, channel 0.
OutputFeatureMap(output_shape, point, intensity) ==
    AssignImpulse(Zeros(ReplaceN1(output_shape)), point.y, point.x, intensity)

\* numpy raises IndexError for the first point it cannot index.
PointAccepted(output_shape, points, fm) ==
    /\ fm <= Len(points)
    /\ InAxis(points[fm].y, output_shape.h)
    /\ InAxis(points[fm].x, output_shape.w)
    /\ output_shape.c >= 1

\* def _get_gradient_from_grid_points(rf_extractor, points, intensity):
\* the list of backend invocations it made and what it returned or raised.
get_gradient_from_grid_points(points, intensity) ==
    LET input_shape == ReplaceN1(_input_shape[1])
        shapes == _output_shapes[1]
    IN  IF \E fm \in 1 .. num_feature_maps : ~PointAccepted(shapes[fm], points, fm)
        THEN [invocations |-> << >>, out |-> Raised("IndexError")]
        ELSE LET output_feature_maps ==
                     [fm \in 1 .. num_feature_maps |->
                         OutputFeatureMap(shapes[fm], points[fm], intensity)]
                 inv == gradient_fn(_gradient_function[1], output_feature_maps,
                                    Zeros(input_shape))
             IN  [invocations |-> << inv >>, out |-> inv.out]

\* ------------------------------------------------------------- probe calls

Point(x, y) == [x |-> x, y |-> y]

\* Points tried on a feature map of the given shape: two in the grid, two
\* with a negative coordinate within -dim .. -1, one past the end, one
\* before -dim.
PointChoices(shape) ==
    { Point(shape.w - 1, 0), Point(0, shape.h - 1),
      Point(-1, 0), Point(0, -1),
      Point(shape.w, 0), Point(0, -shape.h - 1) }

InGrid(point, shape) ==
    /\ 0 <= point.x /\ point.x < shape.w
    /\ 0 <= point.y /\ point.y < shape.h

\* self._get_gradient_from_grid_points(points, intensity) called on the
\* instance once compute has built the gradient function.
Probe ==
    /\ pc = "idle"
    /\ ret = None
    /\ _gradient_function # None
    /\ \E j \in 1 .. num_feature_maps, intensity \in Intensities :
       \E p \in PointChoices(_output_shapes[1][j]) :
          LET points == [fm \in 1 .. num_feature_maps |->
                            IF fm = j THEN p ELSE Point(0, 0)]
              r == get_gradient_from_grid_points(points, intensity)
          IN  /\ run' = r.invocations
              /\ ret' = Some([op |-> "probe",
                              args |-> [points |-> points, intensity |-> intensity],
                              raised |-> r.out.raised])
    /\ UNCHANGED << variant, net, pc, call, ncalls, _session, closed, weights,
                    pending, _gradient_function, _input_shape, _output_shapes,
                    kept, lastCompute, origin >>

\* A caller of prepare invokes the gradient_fn it kept, with one impulse mask
\* per placeholder and a zero image of the resolved input shape with n = 1.
CallKept ==
    /\ pc = "idle"
    /\ ret = None
    /\ kept # None
    /\ LET fn == kept[1]
           m  == Len(fn.receptive_field_masks)
       IN  \E j \in 1 .. m, intensity \in Intensities :
           \E p \in { q \in PointChoices(fn.receptive_field_masks[j].shape) :
                        InGrid(q, fn.receptive_field_masks[j].shape) } :
              LET fm_masks == [k \in 1 .. m |->
                      OutputFeatureMap(fn.receptive_field_masks[k].shape,
                                       IF k = j THEN p ELSE Point(0, 0), intensity)]
                  inv == gradient_fn(fn, fm_masks,
                                     Zeros(ReplaceN1(fn.input_tensor.shape)))
              IN  /\ run' = << inv >>
                  /\ ret' = Some([op |-> "gradient_fn",
                                  args |-> [point |-> p, fm |-> j,
                                            intensity |-> intensity],
                                  raised |-> inv.out.raised])
    /\ UNCHANGED << variant, net, pc, call, ncalls, _session, closed, weights,
                    pending, _gradient_function, _input_shape, _output_shapes,
                    kept, lastCompute, origin >>

\* ---------------------------------------------- compute (the base class)
\* ReceptiveField.compute: prepare, probe every feature map at its centre
\* and one grid unit further, take the bounding box of each gradient's
\* support, refuse a box that touches the image border, derive the
\* description.

MinOf(S) == CHOOSE m \in S : \A x \in S : m <= x
MaxOf(S) == CHOOSE m \in S : \A x \in S : x <= m

SupportRows(grad) == { i[2] : i \in { j \in Indices(grad.shape) : grad.data[j] # 0 } }
SupportCols(grad) == { i[3] : i \in { j \in Indices(grad.shape) : grad.data[j] # 0 } }

BoundingBox(grad) ==
    IF SupportRows(grad) = {} THEN None
    ELSE Some([top |-> MinOf(SupportRows(grad)), bottom |-> MaxOf(SupportRows(grad)),
               left |-> MinOf(SupportCols(grad)), right |-> MaxOf(SupportCols(grad))])

TouchesBorder(box, shape) ==
    \/ box.top = 0 \/ box.left = 0
    \/ box.bottom = shape.h - 1 \/ box.right = shape.w - 1

\* A box the estimator must refuse: no support, or support on the border.
Truncated(optbox, shape) == optbox = None \/ TouchesBorder(optbox[1], shape)

\* offset is kept in half pixels (twice the centroid's displacement from the
\* image centre); size and stride in pixels.
FeatureMapDescription(box0, box1, shape) ==
    [offset |-> [x |-> (box0.left + box0.right) - (shape.w - 1),
                 y |-> (box0.top + box0.bottom) - (shape.h - 1)],
     size   |-> [w |-> box0.right - box0.left + 1,
                 h |-> box0.bottom - box0.top + 1],
     stride |-> [x |-> ((box1.left + box1.right) - (box0.left + box0.right)) \div 2,
                 y |-> ((box1.top + box1.bottom) - (box0.top + box0.bottom)) \div 2]]

CenterPoints(shapes, offset) ==
    [fm \in 1 .. Len(shapes) |->
        Point(shapes[fm].w \div 2 + offset, shapes[fm].h \div 2 + offset)]

\* What the two probe rounds and the reduction give: the backend invocations
\* made, and the descriptions or the error.
Estimation ==
    LET shapes == _output_shapes[1]
        image  == _input_shape[1]
        r0 == get_gradient_from_grid_points(CenterPoints(shapes, 0), 1)
        r1 == get_gradient_from_grid_points(CenterPoints(shapes, 1), 1)
    IN  IF r0.out.raised # None
        THEN [invocations |-> r0.invocations, raised |-> r0.out.raised, value |-> None]
        ELSE IF r1.out.raised # None
        THEN [invocations |-> r0.invocations \o r1.invocations,
              raised |-> r1.out.raised, value |-> None]
        ELSE LET box0 == [fm \in 1 .. Len(shapes) |-> BoundingBox(r0.out.value[fm])]
                 box1 == [fm \in 1 .. Len(shapes) |-> BoundingBox(r1.out.value[fm])]
             IN  [invocations |-> r0.invocations \o r1.invocations,
                  raised |->
                    IF \E fm \in 1 .. Len(shapes) :
                          Truncated(box0[fm], image) \/ Truncated(box1[fm], image)
                    THEN Some("ReceptiveFieldTooLargeError") ELSE None,
                  value |->
                    IF \E fm \in 1 .. Len(shapes) :
                          Truncated(box0[fm], image) \/ Truncated(box1[fm], image)
                    THEN None
                    ELSE Some([fm \in 1 .. Len(shapes) |->
                            FeatureMapDescription(box0[fm][1], box1[fm][1], image)])]

Estimate ==
    /\ pc = "estimate"
    /\ LET e == Estimation
       IN  /\ run' = e.invocations
           /\ ret' = Some(Finished(e.raised, e.value))
           /\ lastCompute' = Remember(Finished(e.raised, e.value))
    /\ pc' = "idle"
    /\ UNCHANGED << variant, net, call, ncalls, _session, closed, weights, pending,
                    _gradient_function, _input_shape, _output_shapes, kept, origin >>

\* The caller takes what the finished call returned or raised; the calls
\* above are made one after the other, each once the previous has returned.
Return ==
    /\ pc = "idle"
    /\ ret # None
    /\ ret' = None
    /\ run' = NoRun
    /\ call' = None
    /\ UNCHANGED << variant, net, pc, ncalls, _session, closed, weights,
                    pending, _gradient_function, _input_shape, _output_shapes,
                    kept, lastCompute, origin >>

\* ---------------------------------------------------------- specification

Next ==
    \/ EnterByName
    \/ EnterByFeatureMaps
    \/ BuildGraph
    \/ OpenSession
    \/ Estimate
    \/ Probe
    \/ CallKept
    \/ Return

Spec == Init /\ [][Next]_vars

\* ------------------------------------------------------------ properties

Created == DOMAIN weights \cup closed

IsFinished(op) == pc = "idle" /\ ret # None /\ ret[1].op = op

\* The layer the k-th output selector of a call designates: by name in
\* TFReceptiveField, by position in the callback's list otherwise.
NumSelected(args) ==
    IF variant = "TFReceptiveField" THEN Len(args.output_tensors) ELSE Len(net.layers)

SelectedLayer(args, k) ==
    IF variant = "TFReceptiveField"
    THEN net.layers[CHOOSE j \in 1 .. Len(net.layers) :
                        net.layers[j].name = args.output_tensors[k]]
    ELSE net.layers[k]

\* C1: at most one session created by the instance is live at any time, and
\* a new session is only created once the previous one is closed.
C1_AtMostOneLiveSession ==
    /\ Cardinality(Live) <= 1
    /\ pc = "session" => Live = {}
    /\ _session # None /\ _session[1] \notin closed => Live = {_session[1]}

C1_Witness ==
    /\ pc = "idle"
    /\ Created = {1, 2}
    /\ closed = {1}
    /\ _session = Some(2)

\* C2 (as stated): a by-name prepare whose input name or one of whose output
\* names is not in the graph fails with TensorResolutionError and returns
\* nothing.
UnresolvedName(args) ==
    /\ variant = "TFReceptiveField"
    /\ ~ModelRaises(net, args.input_shape)
    /\ \/ args.input_tensor \notin OpNames(net)
       \/ \E k \in 1 .. Len(args.output_tensors) : args.output_tensors[k] \notin OpNames(net)

C2_Original ==
    IsFinished("prepare") /\ UnresolvedName(ret[1].args)
        => ret[1].raised = Some("TensorResolutionError") /\ ret[1].value = None

\* C2 (amended): such a call fails with the KeyError of
\* graph.get_operation_by_name, surfaced to the caller as it is; nothing is
\* returned and no session is created for the call.
C2_UnresolvedNameRaisesKeyError ==
    IsFinished("prepare") /\ UnresolvedName(ret[1].args)
        => /\ ret[1].raised = Some("KeyError")
           /\ ret[1].value = None
           /\ ncalls \notin Created

C2_Witness ==
    /\ IsFinished("prepare")
    /\ UnresolvedName(ret[1].args)
    /\ ret[1].args.input_tensor = InputName
    /\ ret[1].args.output_tensors = << "fm1", "missing" >>

\* C3 (as stated): a probe call with a point outside 0 <= x < width,
\* 0 <= y < height of its feature map fails before the gradient function is
\* invoked.
PointsInBounds(points) ==
    \A fm \in 1 .. Len(points) : InGrid(points[fm], _output_shapes[1][fm])

C3_Original ==
    IsFinished("probe") /\ ~PointsInBounds(ret[1].args.points)
        => ret[1].raised # None /\ Len(run) = 0

\* C4 (as stated): a successful prepare returns n = 1 for the input shape and
\* for every output shape.
PrepareReturned == IsFinished("prepare") /\ ret[1].raised = None

C4_Original ==
    PrepareReturned
        => /\ ret[1].value[1].input_shape.n = 1
           /\ \A k \in 1 .. Len(ret[1].value[1].output_shapes) :
                 ret[1].value[1].output_shapes[k].n = 1

\* C4 (amended): a successful prepare returns n = 1 for every output shape;
\* the input shape's n is 1 in TFFeatureMapsReceptiveField and is the batch
\* dimension of the named input tensor in TFReceptiveField.
C4_BatchDimension ==
    PrepareReturned
        => /\ \A k \in 1 .. Len(ret[1].value[1].output_shapes) :
                 ret[1].value[1].output_shapes[k].n = 1
           /\ variant = "TFFeatureMapsReceptiveField"
                 => ret[1].value[1].input_shape.n = 1
           /\ variant = "TFReceptiveField"
                 => ret[1].value[1].input_shape.n = net.batch

C4_Witness ==
    /\ PrepareReturned
    /\ net.batch = 2
    /\ variant = "TFReceptiveField"
    /\ Len(ret[1].value[1].output_shapes) = 1

\* Rows (or columns) of the image that output coordinate y of a layer reads.
Footprint(y, size, k, s) ==
    { r \in 0 .. size - 1 :
        /\ y * s - PadBefore(size, k, s) <= r
        /\ r <= y * s - PadBefore(size, k, s) + k - 1 }

ExpectedShape(args, k) ==
    GridShape(1, OutDim(args.input_shape.h, SelectedLayer(args, k).s),
                 OutDim(args.input_shape.w, SelectedLayer(args, k).s), 1)

ImpulseGradientAt(args, k, point, intensity, wt, i) ==
    IF /\ i[2] \in Footprint(point.y, args.input_shape.h,
                             SelectedLayer(args, k).k, SelectedLayer(args, k).s)
       /\ i[3] \in Footprint(point.x, args.input_shape.w,
                             SelectedLayer(args, k).k, SelectedLayer(args, k).s)
    THEN intensity * wt ELSE 0

\* C5: the returned output shapes are those of the selected outputs, in the
\* order of the selectors, and gradient k of an evaluation is the gradient
\* of output k under mask k: for an impulse of the given intensity at
\* points[k], the weight times the intensity on the pixels output k reads at
\* that point, zero elsewhere.
C5_PositionalAlignment ==
    /\ PrepareReturned
         => /\ Len(ret[1].value[1].output_shapes) = NumSelected(ret[1].args)
            /\ \A k \in 1 .. NumSelected(ret[1].args) :
                  ret[1].value[1].output_shapes[k] = ExpectedShape(ret[1].args, k)
    /\ IsFinished("probe") /\ ret[1].raised = None /\ PointsInBounds(ret[1].args.points)
         => /\ Len(run) = 1
            /\ Len(run[1].out.value) = NumSelected(origin.built[1])
            /\ \A k \in 1 .. NumSelected(origin.built[1]) :
               \A i \in Indices(run[1].out.value[k].shape) :
                  run[1].out.value[k].data[i] =
                     ImpulseGradientAt(origin.built[1], k, ret[1].args.points[k],
                                       ret[1].args.intensity, weights[run[1].on], i)

C5_Witness ==
    /\ IsFinished("probe")
    /\ ret[1].raised = None
    /\ PointsInBounds(ret[1].args.points)
    /\ Len(ret[1].args.points) = 2
    /\ ret[1].args.points[1] # ret[1].args.points[2]
    /\ origin.built[1].output_tensors = << "fm2", "fm1" >>

\* C6: a compute call with the arguments of the previous compute call on the
\* same instance returns (or raises) what the previous call did.
C6_ComputeIdempotent ==
    IsFinished("compute") /\ ret[1].same # None
        => ret[1].same[1] = Outcome(ret[1])

C6_Witness ==
    /\ IsFinished("compute")
    /\ ret[1].same # None
    /\ ret[1].value # None

\* C7: when the footprint of a selected feature map at a probed point does
\* not fit strictly inside the image, compute raises
\* ReceptiveFieldTooLargeError and returns no descriptions.
AxisTruncated(y, size, k, s) ==
    \/ y * s - PadBefore(size, k, s) <= 0
    \/ y * s - PadBefore(size, k, s) + k - 1 >= size - 1

FootprintTruncated(layer, image_shape) ==
    \E off \in {0, 1} :
        \/ AxisTruncated(OutDim(image_shape.h, layer.s) \div 2 + off,
                         image_shape.h, layer.k, layer.s)
        \/ AxisTruncated(OutDim(image_shape.w, layer.s) \div 2 + off,
                         image_shape.w, layer.k, layer.s)

InputTooSmall(args) ==
    \E k \in 1 .. NumSelected(args) :
        FootprintTruncated(SelectedLayer(args, k), args.input_shape)

ProbesSucceeded == Len(run) = 2 /\ \A r \in 1 .. 2 : run[r].out.raised = None

C7_TooLargeRaises ==
    /\ IsFinished("compute") /\ ProbesSucceeded /\ InputTooSmall(ret[1].args)
         => /\ ret[1].raised = Some("ReceptiveFieldTooLargeError")
            /\ ret[1].value = None
    /\ IsFinished("compute") /\ ret[1].value # None
         => ret[1].raised = None /\ ~InputTooSmall(ret[1].args)

C7_Witness ==
    /\ IsFinished("compute")
    /\ ProbesSucceeded
    /\ InputTooSmall(ret[1].args)
    /\ ret[1].args.input_shape.h = 5

\* C8: a probe call with in-bounds points invokes the gradient function
\* exactly once, with one mask per feature map, mask k having the shape of
\* output k with n = 1 and being zero except intensity at (row points[k].y,
\* column points[k].x, channel 0), and with an all-zero image of the resolved
\* input shape with n = 1.
C8_ImpulseMasks ==
    IsFinished("probe") /\ PointsInBounds(ret[1].args.points)
        => /\ Len(run) = 1
           /\ Len(run[1].fm_masks) = Len(_output_shapes[1])
           /\ \A k \in 1 .. Len(_output_shapes[1]) :
                 /\ run[1].fm_masks[k].shape = [_output_shapes[1][k] EXCEPT !.n = 1]
                 /\ \A i \in Indices(run[1].fm_masks[k].shape) :
                       run[1].fm_masks[k].data[i] =
                          IF /\ i[2] = ret[1].args.points[k].y
                             /\ i[3] = ret[1].args.points[k].x
                             /\ i[4] = 0
                          THEN ret[1].args.intensity ELSE 0
           /\ run[1].input_image.shape = [_input_shape[1] EXCEPT !.n = 1]
           /\ \A i \in Indices(run[1].input_image.shape) :
                 run[1].input_image.data[i] = 0

C8_Witness ==
    /\ IsFinished("probe")
    /\ PointsInBounds(ret[1].args.points)
    /\ Len(ret[1].args.points) = 2
    /\ ret[1].args.points[2].x > 0
    /\ ret[1].args.intensity = 3
    /\ _output_shapes[1][2].h # _output_shapes[1][2].w

\* C9 (as stated): a probe function only ever runs on the session created
\* by the prepare call that returned it.
C9_Original ==
    \A r \in 1 .. Len(run) : run[r].on = run[r].fn.graph

\* C9 (amended): a probe function runs on the session the instance holds
\* when it is invoked; it returns gradients only if that is the session its
\* own prepare call created, still open.
C9_RunsOnCurrentSession ==
    \A r \in 1 .. Len(run) :
        /\ run[r].on = _session[1]
        /\ run[r].out.raised = None
             => run[r].on = run[r].fn.graph /\ run[r].on \notin closed
        /\ run[r].on # run[r].fn.graph => run[r].out.raised # None

C9_Witness ==
    /\ IsFinished("gradient_fn")
    /\ run[1].fn.graph = 1
    /\ run[1].on = 2
    /\ run[1].out.raised = Some("TypeError: not an element of this graph")

\* C10: prepare closes the previous session before the callback runs and
\* opens the new one after every output is resolved; a prepare that fails
\* in the callback or in a name lookup leaves no live session, self._session
\* still referring to the closed previous session, and the previous probe
\* function unusable.
Failed ==
    /\ pc = "idle" /\ ret # None /\ ret[1].op \in {"prepare", "compute"}
    /\ ret[1].raised \in { Some("ModelError"), Some("KeyError") }

C10_FailedPrepareLeavesNoSession ==
    /\ pc \in {"build", "session"} => Live = {}
    /\ pc = "session" => Len(pending[1].grads) = NumSelected(call[1])
    /\ Failed
         => /\ Live = {}
            /\ ncalls \notin Created
            /\ _session # None => _session[1] \in closed /\ _session[1] < ncalls
    /\ \A r \in 1 .. Len(run) :
          run[r].on \in closed
             => run[r].out.raised = Some("RuntimeError: closed session")

C10_Witness ==
    /\ Failed
    /\ ret[1].raised = Some("KeyError")
    /\ _session = Some(1)
    /\ closed = {1}

====
